---- MODULE Spec2Model ----
(***************************************************************************)
(* A model of the documentation-agent repository:                          *)
(*   - the workflow driver (main.py: run_docagent_workflow and             *)
(*     run_fallback_workflow) with the agent set-up of agents.py,          *)
(*   - the crew pipeline, the document renderer and the codebase scanner   *)
(*     of agent_with_crew.py.                                              *)
(* Each component has its own specification over the shared variables.     *)
(***************************************************************************)
EXTENDS Integers, Sequences, FiniteSets, TLC

VARIABLES
    \* ---- renderer (agent_with_crew.py: DocumentGeneratorTool)
    content,              \* the markdown handed to the tool
    disk,                 \* the two output files
    tool_ret,             \* what _run returned
    \* ---- crew pipeline (agent_with_crew.py: create_docagent_crew, run_docagent)
    user_prompt,
    codebase_zip_path,
    crew_pc,              \* "idle" | "running" | "done"
    current,              \* the task being executed, 0 when none is
    started,              \* the tasks started so far, in order
    task_output,          \* task -> its output, once produced
    thrown,               \* the task whose hosted call threw, 0 when none did
    crew_ret,             \* what the caller of run_docagent got
    \* ---- codebase scanner (agent_with_crew.py: CodebaseAnalyzerTool)
    fs,                   \* directory -> the files os.walk finds in it, in its order
    last,                 \* the last call of _run: its path, what it walked, its outcome
    repeat,               \* the last call walked what the call before it walked
    \* ---- workflow driver (main.py, agents.py)
    AGENT_SDK_AVAILABLE,  \* agents.py:9-14, fixed at import
    endpoint,             \* AZURE_AI_PROJECT_ENDPOINT is set (agents.py:22)
    service,              \* the hosted service: name -> number of agents of that name
    pc,                   \* position of run_docagent_workflow
    prompt,
    codebase_path,
    analysis_dict,        \* run_fallback_workflow's local analysis_dict
    documentation,        \* the text retrieved or generated in this call
    returned,             \* what the caller got: [kind, rec]
    path,                 \* "none" | "hosted" | "fallback"
    failures,             \* the failures that happened during this call
    threads,              \* hosted thread/runs started during this call
    renders,              \* calls of render_documents_advanced during this call
    calls,                \* invocations of the workflow so far
    now,                  \* the wall clock read by datetime.now()
    previous              \* the fallback document of the invocation before this one

wfVars == <<AGENT_SDK_AVAILABLE, endpoint, service, pc, prompt, codebase_path,
            analysis_dict, documentation, returned, path, failures, threads,
            renders, calls, now, previous>>

renderVars == <<content, disk, tool_ret>>

crewVars == <<user_prompt, codebase_zip_path, crew_pc, current, started, task_output,
              thrown, crew_ret>>

scanVars == <<fs, last, repeat>>

vars == <<wfVars, renderVars, crewVars, scanVars>>

\* ------------------------------------------------------------------ bounds

MaxCalls == 2
MaxTime == 2
MaxContentLen == 6
MaxFiles == 2

\* ------------------------------------------------------------------ values

None == "None"

Prompts == {"Generate full documentation for a shopping cart app",
            "Generate template documentation structure for a REST API project"}

\* codebase paths a caller may pass, and which of them exist on disk
CodebasePaths == {None, "./textdocagent", "./missing", "./code.zip", "bad.zip"}
path_exists(p) == p \in {"./textdocagent", "./code.zip", "bad.zip"}

AgentNames == <<"DocOrchestrator", "CodeAnalyzerAgent", "DocGeneratorAgent", "FormatterAgent">>
AgentKeys == <<"orchestrator", "code_analyzer", "doc_generator", "formatter">>
AgentNameSet == {AgentNames[i] : i \in 1..4}

RunStatuses == {"completed", "failed", "cancelled", "expired"}

Statuses == {"success", "success_fallback", "failed", "error", "no_output"}

\* project_name: str = "Documentation_Package"  (agent_with_crew.py:98)
Documentation_Package == "Documentation_Package"

\* a file path: its stem and its extension
File(stem, ext) == [name |-> stem, ext |-> ext]

\* a result record: the keys the dict holds, and their values
ResultRec(st, ks, doc, files, err) ==
    [status |-> st, keys |-> ks, documentation |-> doc, rendered_files |-> files, error |-> err]

NoLines == <<>>
NoFiles == <<>>

NothingReturned == [kind |-> "none", rec |-> ResultRec("none", {}, NoLines, NoFiles, "")]

\* return {...}
Return(rec) == [kind |-> "result", rec |-> rec]

\* an exception that leaves the function
Raise(e) == [kind |-> "exception", rec |-> ResultRec("none", {}, NoLines, NoFiles, e)]

\* ------------------------------------------------------------------ agents.py

\* get_agent_client: None unless the SDK is importable, the project endpoint is
\* configured and the client constructor does not raise (initOk).
get_agent_client_unchecked(sdk, ep, initOk) ==
    IF ~sdk THEN FALSE ELSE initOk

get_agent_client(sdk, ep, initOk) ==
    IF ~sdk THEN FALSE
    ELSE IF ~ep THEN FALSE
    ELSE initOk

\* the names the listing loop has put in existing_agents: all the agents of the
\* service that carry one of the four names when list_agents() and its iteration
\* succeed, the part seen before the exception otherwise
existing_agents(svc, listRaises, seen) ==
    IF listRaises THEN seen ELSE {n \in AgentNameSet : svc[n] > 0}

\* the create_agent call for the i-th name raises
create_raises(existing, failAt) ==
    failAt # 0 /\ AgentNames[failAt] \notin existing

\* the names create_agent was called for, successfully
created_names(existing, failAt) ==
    {AgentNames[i] : i \in {j \in 1..4 :
        /\ AgentNames[j] \notin existing
        /\ (create_raises(existing, failAt) => j < failAt)}}

\* create_foundry_agents: the dict it returns (its keys) and the service afterwards
create_foundry_agents(sdk, ep, initOk, svc, listRaises, seen, failAt) ==
    IF ~sdk THEN [agents |-> {}, service |-> svc]
    ELSE IF ~get_agent_client(sdk, ep, initOk) THEN [agents |-> {}, service |-> svc]
    ELSE LET existing == existing_agents(svc, listRaises, seen)
             made == created_names(existing, failAt)
             after == [n \in AgentNameSet |-> IF n \in made THEN svc[n] + 1 ELSE svc[n]]
         IN  IF ~listRaises /\ Cardinality(existing) = 4
             THEN [agents |-> {AgentKeys[i] : i \in 1..4}, service |-> svc]
             ELSE IF create_raises(existing, failAt)
             THEN [agents |-> {}, service |-> after]
             ELSE [agents |-> {AgentKeys[i] : i \in 1..4}, service |-> after]

\* ------------------------------------------------------------------ main.py: the fallback document

\* A markdown line: its heading level (0: not a heading) and its words.
H(level, words) == [h |-> level, w |-> words]
P(text) == [h |-> 0, w |-> <<text>>]
Blank == [h |-> 0, w |-> <<>>]

\* what analyze_codebase_advanced may return (tools.py is not part of the sources):
\* a dict with the keys run_fallback_workflow reads
Analysis(files, eps, findings) ==
    [files |-> files, api_endpoints |-> eps, security_findings |-> findings]

\* main.py:180 (the keys .get() does not find read as empty lists)
SkippedAnalysis == Analysis(<<>>, <<>>, <<>>)

AnalysisSamples ==
    { Analysis(<<>>, <<>>, <<>>),
      Analysis(<<File("app", ".py")>>, <<>>, <<"Possible secret in app.py">>),
      Analysis(<<File("app", ".py"), File("index", ".js"), File("auth", ".py")>>,
               <<"@app.get('/login')">>,
               <<"f1", "f2", "f3", "f4", "f5", "f6">>) }

\* analysis_dict.get('security_findings', [])[:5]
FirstFive(findings) == SubSeq(findings, 1, IF Len(findings) < 5 THEN Len(findings) ELSE 5)

\* len([f for f in files if f.endswith('.py')])
PyCount(files) == Cardinality({i \in 1..Len(files) : files[i].ext = ".py"})

\* Date: {datetime.now().strftime('%Y-%m-%d %H:%M:%S')}  (main.py:257)
Date_line(t) == [h |-> 0, w |-> <<"Date:", ToString(t)>>]

\* the f-string of main.py:184-258 up to its last line, line by line
FallbackText(p, a) ==
    <<  H(1, <<"Documentation", "Package">>),
        Blank,
        H(2, <<"Project", "Overview">>),
        [h |-> 0, w |-> <<"Generated based on:", p>>],
        Blank,
        H(2, <<"Business", "Requirements", "Document", "BRD">>),
        Blank,
        H(3, <<"Executive", "Summary">>),
        P("This document outlines the business requirements for the system."),
        Blank,
        H(3, <<"Stakeholders">>),
        P("- Development Team"), P("- Product Management"),
        P("- Quality Assurance"), P("- Security Team"),
        Blank,
        H(3, <<"Business", "Objectives">>),
        P("1. Deliver high-quality documentation"), P("2. Ensure comprehensive coverage"),
        P("3. Maintain security standards"), P("4. Enable efficient onboarding"),
        Blank,
        H(2, <<"Functional", "Requirements", "Document", "FRD">>),
        Blank,
        H(3, <<"System", "Architecture">>),
        IF Len(a.files) > 0 THEN P("Architecture based on analyzed codebase")
        ELSE P("Template architecture - customize based on your system"),
        Blank,
        H(3, <<"Core", "Features">>),
        P("1. **Feature 1**: Description"), P("2. **Feature 2**: Description"),
        P("3. **Feature 3**: Description"),
        Blank,
        H(3, <<"API", "Endpoints">>),
        IF Len(a.api_endpoints) > 0
        THEN [h |-> 0, w |-> <<"Detected", ToString(Len(a.api_endpoints)), "API endpoints">>]
        ELSE P("Define your API endpoints here"),
        Blank,
        H(2, <<"Non-Functional", "Requirements", "Document", "NFRD">>),
        Blank,
        H(3, <<"Performance", "Requirements">>),
        P("- Response Time: < 200ms for API calls"), P("- Throughput: 1000 requests/second"),
        P("- Availability: 99.9% uptime"),
        Blank,
        H(3, <<"Security", "Requirements">>),
        P("- Authentication: OAuth 2.0 / JWT"), P("- Authorization: Role-Based Access Control (RBAC)"),
        P("- Encryption: TLS 1.3 for data in transit"), P("- Data Protection: AES-256 for data at rest"),
        Blank,
        IF Len(a.security_findings) > 0 THEN H(3, <<"Security", "Findings">>) ELSE Blank >>
    \o (IF Len(a.security_findings) = 0 THEN <<Blank>>
        ELSE [i \in 1..Len(FirstFive(a.security_findings)) |->
                 [h |-> 0, w |-> <<"-", FirstFive(a.security_findings)[i]>>]])
    \o
    <<  Blank,
        H(3, <<"Scalability">>),
        P("- Horizontal scaling capability"), P("- Load balancing"), P("- Caching strategy"),
        Blank,
        H(2, <<"Compliance", "&", "Standards">>),
        P("- GDPR compliance"), P("- SOC 2 Type II"), P("- ISO 27001"),
        Blank,
        H(2, <<"Architecture", "Overview">>),
        Blank,
        H(3, <<"Technology", "Stack">>),
        IF Len(a.files) > 0
        THEN [h |-> 0, w |-> <<"Python:", ToString(PyCount(a.files)), "files">>]
        ELSE P("Define your tech stack"),
        Blank,
        H(3, <<"Deployment", "Architecture">>),
        P("- Cloud Platform: Azure"), P("- Container Orchestration: Kubernetes"),
        P("- CI/CD: GitHub Actions"),
        Blank,
        P("---"),
        P("Generated by Azure AI Foundry Documentation Agent") >>

\* the document with its last line put first
FallbackDocument_stamped(p, a, t) == <<Date_line(t)>> \o FallbackText(p, a)

\* documentation = f"""..."""  (main.py:184-258)
FallbackDocument(p, a, t) == FallbackText(p, a) \o <<Date_line(t)>>

\* the text a completed hosted run returns: whatever the assistant wrote
HostedDocuments ==
    { <<H(1, <<"Documentation">>), P("text written by the assistant")>>,
      <<P("I could not write the documentation.")>> }

\* render_documents_advanced(markdown, "./outputs") of tools.py, which is not part of
\* the sources: it returns the paths it wrote, <project_name>.md and
\* <project_name>.docx, or raises when a file could not be created.
render_documents_advanced == <<File(Documentation_Package, ".md"), File(Documentation_Package, ".docx")>>

\* ------------------------------------------------------------------ agent_with_crew.py: the scanner

\* A file on disk: its name, whether open() succeeds, whether its bytes decode under
\* the default encoding, the markers its lower-cased text contains, and its lines
\* that contain 'get(' or 'post(', stripped.
Src(stem, ext, readable, decodable, markers, call_lines) ==
    [name |-> stem, ext |-> ext, readable |-> readable, decodable |-> decodable,
     markers |-> markers, call_lines |-> call_lines]

F_app == Src("app", ".py", TRUE, TRUE, {"@app.route", "jwt"}, <<>>)
F_api == Src("api", ".py", TRUE, TRUE, {"fastapi", "password", "="},
             <<"@app.get('/items')", "@app.post('/items')">>)
F_legacy == Src("legacy", ".py", TRUE, FALSE, {"flask", "jwt", "password", "hardcoded"},
                <<"r = requests.get(url)">>)
F_secret == Src("secret", ".go", FALSE, TRUE, {"password", "="}, <<>>)
F_readme == Src("README", ".md", TRUE, TRUE, {"flask", "jwt"}, <<"client.get(url)">>)
F_server == Src("server", ".js", TRUE, TRUE, {"express", "oauth"}, <<"app.get('/', home)">>)
F_app_v2 == Src("app", ".py", TRUE, TRUE, {"flask"}, <<"@app.get('/v2')">>)
\* a login view with a comment in another encoding
F_views == Src("views", ".py", TRUE, FALSE, {"@app.route", "jwt"}, <<>>)

\* the files a user may put in the project directory
UserFiles == {F_app, F_api, F_legacy, F_secret, F_readme, F_views}

ProjectDir == "./textdocagent"

\* extract_dir = "temp_codebase"  (agent_with_crew.py:63)
extract_dir == "temp_codebase"

Dirs == {ProjectDir, extract_dir}

\* the archives on disk; a corrupt one has no readable content
Archives == {"a.zip", "b.zip", "bad.zip"}
corrupt(zip) == zip = "bad.zip"
members(zip) ==
    CASE zip = "a.zip" -> <<F_app, F_readme>>
      [] zip = "b.zip" -> <<F_app_v2, F_server>>
      [] OTHER -> <<>>

\* codebase_path.endswith('.zip')
endswith_zip(p) == p \in Archives \cup {"./code.zip"}

\* zipfile.ZipFile(codebase_path, 'r') raises (agent_with_crew.py:64-66)
extraction_raises(p) == endswith_zip(p) /\ corrupt(p)

\* z.extractall(extract_dir): a member replaces the file of its name, or is added
RECURSIVE extractall(_, _)
extractall(listing, ms) ==
    IF ms = <<>> THEN listing
    ELSE LET m == Head(ms)
             same(f) == f.name = m.name /\ f.ext = m.ext
             put == IF \E i \in 1..Len(listing) : same(listing[i])
                    THEN [i \in 1..Len(listing) |-> IF same(listing[i]) THEN m ELSE listing[i]]
                    ELSE Append(listing, m)
         IN  extractall(put, Tail(ms))

\* a result that keeps what the previous call left in it
new_result_shared ==
    IF last.kind = "record" THEN last.result
    ELSE [language |-> "unknown", files |-> <<>>, endpoints |-> <<>>, auth_methods |-> <<>>,
          databases |-> <<>>, security_issues |-> <<>>, architecture |-> <<"Not detected">>]

\* result = {...}  (agent_with_crew.py:53-61)
new_result ==
    [language |-> "unknown", files |-> <<>>, endpoints |-> <<>>, auth_methods |-> <<>>,
     databases |-> <<>>, security_issues |-> <<>>, architecture |-> <<"Not detected">>]

\* file.endswith(('.py', '.js', '.ts', '.java', '.go', '.cs'))
eligible(f) == f.ext \in {".py", ".js", ".ts", ".java", ".go", ".cs"}

has_any(f, ms) == f.markers \cap ms # {}

\* the body of the try of agent_with_crew.py:74-86 for one file: each test in turn;
\* the second open() of line 79 raises on bytes that do not decode, and the except
\* of line 86 then drops the rest of the tests
inspect(res, f) ==
    IF ~f.readable THEN res
    ELSE LET web == has_any(f, {"fastapi", "flask", "@app.route", "router."})
             r1 == IF web THEN [res EXCEPT !.language = "Python Web"] ELSE res
         IN  IF web /\ ~f.decodable THEN r1
             ELSE LET r2 == IF web THEN [r1 EXCEPT !.endpoints = @ \o f.call_lines] ELSE r1
                      r3 == IF has_any(f, {"express"})
                            THEN [r2 EXCEPT !.language = "Node.js Express"] ELSE r2
                      r4 == IF has_any(f, {"jwt", "oauth", "passport", "auth0"})
                            THEN [r3 EXCEPT !.auth_methods = Append(@, "OAuth/JWT detected")]
                            ELSE r3
                  IN  IF has_any(f, {"password"}) /\ has_any(f, {"=", "hardcoded"})
                      THEN [r4 EXCEPT !.security_issues =
                               Append(@, <<"Possible secret in", f.name, f.ext>>)]
                      ELSE r4

\* one file of the walk (agent_with_crew.py:70-86)
scan_file(res, root, f) ==
    IF eligible(f)
    THEN inspect([res EXCEPT !.files = Append(@, [root |-> root, name |-> f.name, ext |-> f.ext])], f)
    ELSE res

\* for root, _, files in os.walk(codebase_path)  (agent_with_crew.py:69-86)
RECURSIVE walk(_, _, _)
walk(res, root, listing) ==
    IF listing = <<>> THEN res
    ELSE walk(scan_file(res, root, Head(listing)), root, Tail(listing))

\* the summary without the assignment of line 88
architecture_stale(res) == res.architecture

\* f"{len(files)} files | {language} | {len(endpoints)} endpoints"  (line 88)
architecture(res) ==
    <<ToString(Len(res.files)), "files |", res.language, "|",
      ToString(Len(res.endpoints)), "endpoints">>

\* CodebaseAnalyzerTool._run on a directory listing
analyze(root, listing) ==
    LET res == walk(new_result, root, listing)
    IN  [res EXCEPT !.architecture = architecture(res)]

NoScan == [kind |-> "none", path |-> None, content |-> <<>>, result |-> <<>>]

ScanIdle ==
    /\ fs = [d \in Dirs |-> <<>>]
    /\ last = NoScan
    /\ repeat = FALSE

\* somebody adds a file to the project directory
WriteFile(f) ==
    /\ Len(fs[ProjectDir]) < MaxFiles
    /\ \A i \in 1..Len(fs[ProjectDir]) : fs[ProjectDir][i].name # f.name
    /\ fs' = [fs EXCEPT ![ProjectDir] = Append(@, f)]
    /\ UNCHANGED <<last, repeat>>

\* analyze_codebase._run(p) for a directory
ScanDirectory(p) ==
    /\ ~endswith_zip(p)
    /\ last' = [kind |-> "record", path |-> p, content |-> fs[p],
                result |-> analyze(p, fs[p])]
    /\ repeat' = (last.kind = "record" /\ last.path = p /\ last.content = fs[p])
    /\ UNCHANGED fs

\* analyze_codebase._run(p) for an archive: it is extracted into extract_dir, which
\* is then walked; a corrupt archive makes ZipFile raise, and nothing catches it
ScanArchive(p) ==
    /\ endswith_zip(p)
    /\ IF corrupt(p)
       THEN /\ last' = [kind |-> "exception", path |-> p, content |-> <<>>, result |-> <<>>]
            /\ repeat' = FALSE
            /\ UNCHANGED fs
       ELSE LET listing == extractall(fs[extract_dir], members(p))
            IN  /\ fs' = [fs EXCEPT ![extract_dir] = listing]
                /\ last' = [kind |-> "record", path |-> p, content |-> listing,
                            result |-> analyze(extract_dir, listing)]
                /\ repeat' = (last.kind = "record" /\ last.path = p /\ last.content = listing)

\* ------------------------------------------------------------------ agent_with_crew.py: the renderer

\* A string is a sequence of characters.
NL == "\n"
Chars == {"#", " ", "a", NL}

\* content.split('\n')
RECURSIVE split(_)
split(str) ==
    IF \A i \in 1..Len(str) : str[i] # NL
    THEN <<str>>
    ELSE LET k == CHOOSE i \in 1..Len(str) : str[i] = NL /\ \A j \in 1..(i - 1) : str[j] # NL
         IN  <<SubSeq(str, 1, k - 1)>> \o split(SubSeq(str, k + 1, Len(str)))

\* line.startswith(prefix)
startswith(line, prefix) ==
    Len(line) >= Len(prefix) /\ SubSeq(line, 1, Len(prefix)) = prefix

\* line[n:]
drop(line, n) == SubSeq(line, n + 1, Len(line))

\* line.strip() is not empty
strip_nonempty(line) == \E i \in 1..Len(line) : line[i] \notin {" ", NL}

Heading(text, level) == [kind |-> "heading", level |-> level, text |-> text]
Paragraph(text) == [kind |-> "paragraph", level |-> 0, text |-> text]

\* the chain of tests with a first test for the bare '#'
add_line_bare_hash(line) ==
    IF startswith(line, <<"#">>) THEN <<Heading(drop(line, 2), 1)>>
    ELSE IF startswith(line, <<"#", "#", " ">>) THEN <<Heading(drop(line, 3), 2)>>
    ELSE IF startswith(line, <<"#", "#", "#", " ">>) THEN <<Heading(drop(line, 4), 3)>>
    ELSE IF strip_nonempty(line) THEN <<Paragraph(line)>>
    ELSE <<>>

\* the chain of tests with heading texts stripped of surrounding blanks
RECURSIVE lstrip(_)
lstrip(line) ==
    IF line # <<>> /\ Head(line) \in {" ", NL} THEN lstrip(Tail(line)) ELSE line

add_line_stripped(line) ==
    IF startswith(line, <<"#", " ">>) THEN <<Heading(lstrip(drop(line, 2)), 1)>>
    ELSE IF startswith(line, <<"#", "#", " ">>) THEN <<Heading(lstrip(drop(line, 3)), 2)>>
    ELSE IF startswith(line, <<"#", "#", "#", " ">>) THEN <<Heading(lstrip(drop(line, 4)), 3)>>
    ELSE IF strip_nonempty(line) THEN <<Paragraph(line)>>
    ELSE <<>>

\* the chain of tests with the second test for '##' without the blank
add_line_loose_second(line) ==
    IF startswith(line, <<"#", " ">>) THEN <<Heading(drop(line, 2), 1)>>
    ELSE IF startswith(line, <<"#", "#">>) THEN <<Heading(drop(line, 3), 2)>>
    ELSE IF startswith(line, <<"#", "#", "#", " ">>) THEN <<Heading(drop(line, 4), 3)>>
    ELSE IF strip_nonempty(line) THEN <<Paragraph(line)>>
    ELSE <<>>

\* what one line adds to the document (agent_with_crew.py:116-124)
add_line(line) ==
    IF startswith(line, <<"#", " ">>) THEN <<Heading(drop(line, 2), 1)>>
    ELSE IF startswith(line, <<"#", "#", " ">>) THEN <<Heading(drop(line, 3), 2)>>
    ELSE IF startswith(line, <<"#", "#", "#", " ">>) THEN <<Heading(drop(line, 4), 3)>>
    ELSE IF strip_nonempty(line) THEN <<Paragraph(line)>>
    ELSE <<>>

RECURSIVE add_lines(_)
add_lines(lines) ==
    IF lines = <<>> THEN <<>> ELSE add_line(Head(lines)) \o add_lines(Tail(lines))

\* doc.add_heading('Documentation Package', 0)  (agent_with_crew.py:111); the title
\* text is kept as one unit
TitleText == <<"Documentation Package">>

\* the Document built by agent_with_crew.py:108-124
build_document(markdown) ==
    <<Heading(TitleText, 0)>> \o add_lines(split(markdown))

\* the two files of a project: <project_name>.md and <project_name>.docx
NoDisk == [md |-> [written |-> FALSE, text |-> <<>>],
           docx |-> [written |-> FALSE, doc |-> <<>>]]

NoReturn == [returned |-> FALSE, ok |-> FALSE, files |-> <<>>, error |-> ""]

\* return f"Files generated successfully:\n- {md_path}\n- {docx_path}"  (line 131)
files_generated(project_name) ==
    [returned |-> TRUE, ok |-> TRUE,
     files |-> <<File(project_name, ".md"), File(project_name, ".docx")>>, error |-> ""]

\* return f" Error generating files: {str(e)}"  (lines 132-133)
error_generating(e) ==
    [returned |-> TRUE, ok |-> FALSE, files |-> <<>>, error |-> e]

\* DocumentGeneratorTool._run (agent_with_crew.py:98-133) on a disk d: the markdown
\* file is written first, then the document is built and saved; the first exception
\* ends the call.
generate_documents(d, markdown, project_name, mdFails, docxFails) ==
    IF mdFails
    THEN [disk |-> d, ret |-> error_generating("cannot write the markdown file")]
    ELSE LET d1 == [d EXCEPT !.md = [written |-> TRUE, text |-> markdown]]
         IN  IF docxFails
             THEN [disk |-> d1, ret |-> error_generating("cannot save the document")]
             ELSE [disk |-> [d1 EXCEPT !.docx = [written |-> TRUE, doc |-> build_document(markdown)]],
                   ret |-> files_generated(project_name)]

\* all strings of length n
RECURSIVE StringsOfLen(_)
StringsOfLen(n) ==
    IF n = 0 THEN {<<>>}
    ELSE {Append(str, c) : str \in StringsOfLen(n - 1), c \in Chars}

Strings == UNION {StringsOfLen(n) : n \in 0..MaxContentLen}

RenderIdle ==
    /\ content = <<>>
    /\ disk = NoDisk
    /\ tool_ret = NoReturn

RenderInit ==
    /\ content \in Strings
    /\ disk = NoDisk
    /\ tool_ret = NoReturn

\* generate_documents._run(content)
DocumentGeneratorTool_run ==
    /\ ~tool_ret.returned
    /\ \E mdFails \in BOOLEAN, docxFails \in BOOLEAN :
          LET r == generate_documents(disk, content, Documentation_Package, mdFails, docxFails)
          IN  /\ disk' = r.disk
              /\ tool_ret' = r.ret
    /\ UNCHANGED content

\* ------------------------------------------------------------------ agent_with_crew.py: the crew

Tasks == 1..4

\* tasks=[task1, task3, task2, task4]
crew_tasks_swapped == <<1, 3, 2, 4>>

\* tasks=[task1, task2, task3, task4], process=Process.sequential
\* (agent_with_crew.py:228-235)
crew_tasks == <<1, 2, 3, 4>>

\* the context= of each Task (agent_with_crew.py:186-226)
task_context(k) ==
    CASE k = 1 -> {}
      [] k = 2 -> {1}
      [] k = 3 -> {2}
      [] k = 4 -> {1, 2, 3}

NoOutput == [done |-> FALSE, text |-> <<>>]
Output(text) == [done |-> TRUE, text |-> text]

\* what the writer may answer for task 2
MarkdownSamples ==
    { <<"#", " ", "a">>,
      <<"#", "#", " ", "a", NL, "a">>,
      <<>> }

CrewNothing == [kind |-> "none", status |-> "none", error |-> ""]

CrewIdle ==
    /\ user_prompt = None
    /\ codebase_zip_path = None
    /\ crew_pc = "idle"
    /\ current = 0
    /\ started = <<>>
    /\ task_output = [k \in Tasks |-> NoOutput]
    /\ thrown = 0
    /\ crew_ret = CrewNothing

\* run_docagent(user_prompt, codebase_zip_path): the crew is built and kicked off
\* (agent_with_crew.py:243-246)
run_docagent(p, cp) ==
    /\ crew_pc = "idle"
    /\ user_prompt' = p
    /\ codebase_zip_path' = cp
    /\ crew_pc' = "running"
    /\ UNCHANGED <<current, started, task_output, thrown, crew_ret, renderVars>>

\* the sequential process takes the next task of the list
StartTask ==
    /\ crew_pc = "running"
    /\ current = 0
    /\ Len(started) < Len(crew_tasks)
    /\ current' = crew_tasks[Len(started) + 1]
    /\ started' = Append(started, crew_tasks[Len(started) + 1])
    /\ UNCHANGED <<user_prompt, codebase_zip_path, crew_pc, task_output, thrown, crew_ret,
                   renderVars>>

\* the text a task hands to its agent from a context task
context_text(k, c) == IF c \in task_context(k) THEN task_output[c].text ELSE <<>>

\* the hosted call of the task returns: tasks 1, 2 and 4 answer with text, task 3
\* calls generate_documents with the markdown of its context and answers with the
\* tool's confirmation
FinishTask ==
    /\ crew_pc = "running"
    /\ current # 0
    /\ IF current = 3
       THEN \E mdFails \in BOOLEAN, docxFails \in BOOLEAN :
               LET r == generate_documents(disk, context_text(3, 2), Documentation_Package,
                                           mdFails, docxFails)
               IN  /\ content' = context_text(3, 2)
                   /\ disk' = r.disk
                   /\ tool_ret' = r.ret
                   /\ task_output' = [task_output EXCEPT ![3] =
                         Output(IF r.ret.ok THEN <<"Files generated successfully">>
                                ELSE <<" Error generating files">>)]
       ELSE /\ \E text \in (IF current = 2 THEN MarkdownSamples
                            ELSE IF current = 1 THEN {<<"analysis">>}
                            ELSE {<<"review">>}) :
                  task_output' = [task_output EXCEPT ![current] = Output(text)]
            /\ UNCHANGED renderVars
    /\ current' = 0
    /\ UNCHANGED <<user_prompt, codebase_zip_path, crew_pc, started, thrown, crew_ret>>

\* the hosted call of the task throws: kickoff() raises, and run_docagent, which has
\* no handler, lets the exception through (agent_with_crew.py:245-246)
TaskThrows ==
    /\ crew_pc = "running"
    /\ current # 0
    /\ thrown' = current
    /\ current' = 0
    /\ crew_ret' = [kind |-> "exception", status |-> "none", error |-> "hosted service error"]
    /\ crew_pc' = "done"
    /\ UNCHANGED <<user_prompt, codebase_zip_path, started, task_output, renderVars>>

\* kickoff() returns the output of the last task, and run_docagent returns it
\* (agent_with_crew.py:246-256)
CrewReturn ==
    /\ crew_pc = "running"
    /\ current = 0
    /\ Len(started) = Len(crew_tasks)
    /\ crew_ret' = [kind |-> "result", status |-> "none", error |-> ""]
    /\ crew_pc' = "done"
    /\ UNCHANGED <<user_prompt, codebase_zip_path, current, started, task_output, thrown,
                   renderVars>>

\* ------------------------------------------------------------------ main.py: the workflow driver

\* the handler of main.py:147-151 letting the exception through
workflow_except_reraise(e) == Raise(e)

\* except Exception as e: return {"status": "error", "error": str(e)}  (main.py:147-151)
workflow_except(e) ==
    Return(ResultRec("error", {"status", "error"}, NoLines, NoFiles, e))

\* the handler of main.py:279-283 returning the results collected so far
fallback_except_returns_results(e) ==
    Return(ResultRec("success_fallback",
                     {"status", "documentation", "analysis", "rendered_files"},
                     NoLines, NoFiles, ""))

\* the same handler of run_fallback_workflow (main.py:279-283)
fallback_except(e) ==
    Return(ResultRec("error", {"status", "error"}, NoLines, NoFiles, e))

\* return {"status": "failed", "error": run.status}  (main.py:94-98)
run_not_completed(status) ==
    Return(ResultRec("failed", {"status", "error"}, NoLines, NoFiles, status))

\* return {"status": "no_output"}  (main.py:109-111)
no_assistant_message ==
    Return(ResultRec("no_output", {"status"}, NoLines, NoFiles, ""))

\* the return of main.py:138-145 reporting a render step that wrote nothing as an error
hosted_success_render_checked(doc, rendered) ==
    IF rendered = NoFiles
    THEN Return(ResultRec("error", {"status", "error"}, NoLines, NoFiles, "render error"))
    ELSE Return(ResultRec("success",
                          {"status", "thread_id", "run_id", "documentation", "rendered_files", "preview"},
                          doc, rendered, ""))

\* the dict of main.py:138-145; rendered is [] when the render step raised
hosted_success(doc, rendered) ==
    Return(ResultRec("success",
                     {"status", "thread_id", "run_id", "documentation", "rendered_files", "preview"},
                     doc, rendered, ""))

\* results without the assignment of line 260
fallback_results_without_documentation(doc, rendered) ==
    Return(ResultRec("success_fallback",
                     {"status", "documentation", "analysis", "rendered_files"},
                     NoLines, rendered, ""))

\* results without the assignment of line 270
fallback_results_without_files(doc, rendered) ==
    Return(ResultRec("success_fallback",
                     {"status", "documentation", "analysis", "rendered_files"},
                     doc, NoFiles, ""))

\* results of main.py:163-168 after the assignments of lines 176, 260 and 270
fallback_results(doc, rendered) ==
    Return(ResultRec("success_fallback",
                     {"status", "documentation", "analysis", "rendered_files"},
                     doc, rendered, ""))

\* the failures create_foundry_agents met
agent_failures(ep, initOk, listRaises, existing, failAt) ==
    IF ~ep THEN {"config_missing"}
    ELSE IF ~initOk THEN {"client_init"}
    ELSE (IF listRaises THEN {"agent_list"} ELSE {})
         \cup (IF create_raises(existing, failAt) THEN {"agent_create"} ELSE {})

\* no fallback document was generated yet
NoPrevious == [set |-> FALSE, prompt |-> None, analysis |-> SkippedAnalysis,
               documentation |-> NoLines, at |-> 0]

\* a caller invokes run_docagent_workflow(p, cp)
Call(p, cp) ==
    /\ pc \in {"idle", "done"}
    /\ calls < MaxCalls
    /\ pc' = "start"
    /\ prompt' = p
    /\ codebase_path' = cp
    /\ analysis_dict' = SkippedAnalysis
    /\ documentation' = NoLines
    /\ returned' = NothingReturned
    /\ path' = "none"
    /\ failures' = {}
    /\ threads' = 0
    /\ renders' = 0
    /\ calls' = calls + 1
    /\ now' \in now..MaxTime
    /\ UNCHANGED <<AGENT_SDK_AVAILABLE, endpoint, service, previous>>

\* a caller invokes run_fallback_workflow(p, cp) itself (main.py:154); the document
\* of the invocation before it, if it generated one, is kept for comparison
CallFallback(p, cp) ==
    /\ pc \in {"idle", "done"}
    /\ calls < MaxCalls
    /\ pc' = "fallback"
    /\ prompt' = p
    /\ codebase_path' = cp
    /\ analysis_dict' = SkippedAnalysis
    /\ documentation' = NoLines
    /\ returned' = NothingReturned
    /\ path' = "fallback"
    /\ failures' = {}
    /\ threads' = 0
    /\ renders' = 0
    /\ calls' = calls + 1
    /\ now' \in now..MaxTime
    /\ previous' = IF documentation # NoLines
                   THEN [set |-> TRUE, prompt |-> prompt, analysis |-> analysis_dict,
                         documentation |-> documentation, at |-> now]
                   ELSE previous
    /\ UNCHANGED <<AGENT_SDK_AVAILABLE, endpoint, service>>

\* main.py:45-48
CheckSdk ==
    /\ pc = "start"
    /\ IF ~AGENT_SDK_AVAILABLE
       THEN /\ pc' = "fallback"
            /\ path' = "fallback"
            /\ failures' = failures \cup {"sdk_missing"}
       ELSE /\ pc' = "create_agents"
            /\ UNCHANGED <<path, failures>>
    /\ UNCHANGED <<AGENT_SDK_AVAILABLE, endpoint, service, prompt, codebase_path,
                   analysis_dict, documentation, returned, threads, renders, calls, now, previous>>

\* main.py:50-56
CreateAgents ==
    /\ pc = "create_agents"
    /\ \E initOk \in BOOLEAN, listRaises \in BOOLEAN, failAt \in 0..4 :
       \E seen \in (IF listRaises THEN SUBSET {n \in AgentNameSet : service[n] > 0} ELSE {{}}) :
          LET r == create_foundry_agents(AGENT_SDK_AVAILABLE, endpoint, initOk, service,
                                         listRaises, seen, failAt)
              existing == existing_agents(service, listRaises, seen)
          IN  /\ service' = r.service
              /\ failures' = failures \cup agent_failures(endpoint, initOk, listRaises, existing, failAt)
              /\ IF "orchestrator" \in r.agents
                 THEN pc' = "get_client" /\ UNCHANGED path
                 ELSE pc' = "fallback" /\ path' = "fallback"
    /\ UNCHANGED <<AGENT_SDK_AVAILABLE, endpoint, prompt, codebase_path, analysis_dict,
                   documentation, returned, threads, renders, calls, now, previous>>

\* main.py:58-63
GetClient ==
    /\ pc = "get_client"
    /\ \E initOk \in BOOLEAN :
          IF get_agent_client(AGENT_SDK_AVAILABLE, endpoint, initOk)
          THEN /\ pc' = "run"
               /\ path' = "hosted"
               /\ UNCHANGED failures
          ELSE /\ pc' = "fallback"
               /\ path' = "fallback"
               /\ failures' = failures \cup {IF endpoint THEN "client_init" ELSE "config_missing"}
    /\ UNCHANGED <<AGENT_SDK_AVAILABLE, endpoint, service, prompt, codebase_path,
                   analysis_dict, documentation, returned, threads, renders, calls, now, previous>>

\* main.py:65-98: create_thread_and_process_run raises, or returns a run
HostedRun ==
    /\ pc = "run"
    /\ threads' = threads + 1
    /\ \E raises \in BOOLEAN, status \in RunStatuses :
          IF raises
          THEN /\ returned' = workflow_except("hosted run error")
               /\ failures' = failures \cup {"hosted_run"}
               /\ pc' = "done"
          ELSE IF status # "completed"
          THEN /\ returned' = run_not_completed(status)
               /\ failures' = failures \cup {"run_not_completed"}
               /\ pc' = "done"
          ELSE /\ pc' = "messages"
               /\ UNCHANGED <<returned, failures>>
    /\ UNCHANGED <<AGENT_SDK_AVAILABLE, endpoint, service, prompt, codebase_path,
                   analysis_dict, documentation, path, renders, calls, now, previous>>

\* main.py:100-121: the last assistant message, if any
Messages ==
    /\ pc = "messages"
    /\ \E raises \in BOOLEAN, doc \in HostedDocuments \cup {NoLines} :
          IF raises
          THEN /\ returned' = workflow_except("message retrieval error")
               /\ failures' = failures \cup {"hosted_run"}
               /\ pc' = "done"
               /\ UNCHANGED documentation
          ELSE IF doc = NoLines
          THEN /\ returned' = no_assistant_message
               /\ failures' = failures \cup {"no_message"}
               /\ pc' = "done"
               /\ UNCHANGED documentation
          ELSE /\ documentation' = doc
               /\ pc' = "render"
               /\ UNCHANGED <<returned, failures>>
    /\ UNCHANGED <<AGENT_SDK_AVAILABLE, endpoint, service, prompt, codebase_path,
                   analysis_dict, path, threads, renders, calls, now, previous>>

\* main.py:123-145: the render step and its own try/except
HostedRender ==
    /\ pc = "render"
    /\ renders' = renders + 1
    /\ \E ok \in BOOLEAN :
          /\ returned' = hosted_success(documentation, IF ok THEN render_documents_advanced ELSE NoFiles)
          /\ failures' = IF ok THEN failures ELSE failures \cup {"render"}
    /\ pc' = "done"
    /\ UNCHANGED <<AGENT_SDK_AVAILABLE, endpoint, service, prompt, codebase_path,
                   analysis_dict, documentation, path, threads, calls, now, previous>>

\* main.py:170-180: step 1 of run_fallback_workflow; the scan raises when the
\* archive cannot be extracted, and may raise for other reasons
FallbackScan ==
    /\ pc = "fallback"
    /\ IF codebase_path # None /\ path_exists(codebase_path)
       THEN \E raises \in (IF extraction_raises(codebase_path) THEN {TRUE} ELSE BOOLEAN),
               a \in AnalysisSamples :
               IF raises
               THEN /\ returned' = fallback_except("scan error")
                    /\ failures' = failures \cup {"scan"}
                    /\ pc' = "done"
                    /\ UNCHANGED analysis_dict
               ELSE /\ analysis_dict' = a
                    /\ pc' = "fb_generate"
                    /\ UNCHANGED <<returned, failures>>
       ELSE /\ analysis_dict' = SkippedAnalysis
            /\ pc' = "fb_generate"
            /\ UNCHANGED <<returned, failures>>
    /\ UNCHANGED <<AGENT_SDK_AVAILABLE, endpoint, service, prompt, codebase_path,
                   documentation, path, threads, renders, calls, now, previous>>

\* main.py:182-261: step 2
FallbackGenerate ==
    /\ pc = "fb_generate"
    /\ documentation' = FallbackDocument(prompt, analysis_dict, now)
    /\ pc' = "fb_render"
    /\ UNCHANGED <<AGENT_SDK_AVAILABLE, endpoint, service, prompt, codebase_path,
                   analysis_dict, returned, path, failures, threads, renders, calls, now, previous>>

\* main.py:263-283: step 3 and the return
FallbackRender ==
    /\ pc = "fb_render"
    /\ renders' = renders + 1
    /\ \E ok \in BOOLEAN :
          IF ok
          THEN /\ returned' = fallback_results(documentation, render_documents_advanced)
               /\ UNCHANGED failures
          ELSE /\ returned' = fallback_except("render error")
               /\ failures' = failures \cup {"render"}
    /\ pc' = "done"
    /\ UNCHANGED <<AGENT_SDK_AVAILABLE, endpoint, service, prompt, codebase_path,
                   analysis_dict, documentation, path, threads, calls, now, previous>>

WorkflowIdle ==
    /\ AGENT_SDK_AVAILABLE = FALSE
    /\ endpoint = FALSE
    /\ service = [n \in AgentNameSet |-> 0]
    /\ pc = "idle"
    /\ prompt = None
    /\ codebase_path = None
    /\ analysis_dict = SkippedAnalysis
    /\ documentation = NoLines
    /\ returned = NothingReturned
    /\ path = "none"
    /\ failures = {}
    /\ threads = 0
    /\ renders = 0
    /\ calls = 0
    /\ now = 0
    /\ previous = NoPrevious

WorkflowInit ==
    /\ AGENT_SDK_AVAILABLE \in BOOLEAN
    /\ endpoint \in BOOLEAN
    /\ service = [n \in AgentNameSet |-> 0]
    /\ pc = "idle"
    /\ prompt = None
    /\ codebase_path = None
    /\ analysis_dict = SkippedAnalysis
    /\ documentation = NoLines
    /\ returned = NothingReturned
    /\ path = "none"
    /\ failures = {}
    /\ threads = 0
    /\ renders = 0
    /\ calls = 0
    /\ now = 0
    /\ previous = NoPrevious

\* ------------------------------------------------------------------ specifications

\* the workflow driver
Init == WorkflowInit /\ RenderIdle /\ CrewIdle /\ ScanIdle

Next ==
    \/ \E p \in Prompts, cp \in CodebasePaths :
          Call(p, cp) /\ UNCHANGED <<renderVars, crewVars, scanVars>>
    \/ CheckSdk /\ UNCHANGED <<renderVars, crewVars, scanVars>>
    \/ CreateAgents /\ UNCHANGED <<renderVars, crewVars, scanVars>>
    \/ GetClient /\ UNCHANGED <<renderVars, crewVars, scanVars>>
    \/ HostedRun /\ UNCHANGED <<renderVars, crewVars, scanVars>>
    \/ Messages /\ UNCHANGED <<renderVars, crewVars, scanVars>>
    \/ HostedRender /\ UNCHANGED <<renderVars, crewVars, scanVars>>
    \/ FallbackScan /\ UNCHANGED <<renderVars, crewVars, scanVars>>
    \/ FallbackGenerate /\ UNCHANGED <<renderVars, crewVars, scanVars>>
    \/ FallbackRender /\ UNCHANGED <<renderVars, crewVars, scanVars>>

Spec == Init /\ [][Next]_vars

\* the fallback workflow called on its own
InitFallback == WorkflowIdle /\ RenderIdle /\ CrewIdle /\ ScanIdle

NextFallback ==
    \/ \E p \in Prompts, cp \in CodebasePaths :
          CallFallback(p, cp) /\ UNCHANGED <<renderVars, crewVars, scanVars>>
    \/ FallbackScan /\ UNCHANGED <<renderVars, crewVars, scanVars>>
    \/ FallbackGenerate /\ UNCHANGED <<renderVars, crewVars, scanVars>>
    \/ FallbackRender /\ UNCHANGED <<renderVars, crewVars, scanVars>>

SpecFallback == InitFallback /\ [][NextFallback]_vars

\* the renderer
InitRender == RenderInit /\ WorkflowIdle /\ CrewIdle /\ ScanIdle

NextRender == DocumentGeneratorTool_run /\ UNCHANGED <<wfVars, crewVars, scanVars>>

SpecRender == InitRender /\ [][NextRender]_vars

\* the crew pipeline
InitCrew == CrewIdle /\ RenderIdle /\ WorkflowIdle /\ ScanIdle

NextCrew ==
    \/ \E p \in Prompts, cp \in {None, ProjectDir, "a.zip"} :
          run_docagent(p, cp) /\ UNCHANGED <<wfVars, scanVars>>
    \/ StartTask /\ UNCHANGED <<wfVars, scanVars>>
    \/ FinishTask /\ UNCHANGED <<wfVars, scanVars>>
    \/ TaskThrows /\ UNCHANGED <<wfVars, scanVars>>
    \/ CrewReturn /\ UNCHANGED <<wfVars, scanVars>>

SpecCrew == InitCrew /\ [][NextCrew]_vars

\* the scanner
InitScan == ScanIdle /\ RenderIdle /\ WorkflowIdle /\ CrewIdle

NextScan ==
    \/ \E f \in UserFiles : WriteFile(f) /\ UNCHANGED <<wfVars, renderVars, crewVars>>
    \/ ScanDirectory(ProjectDir) /\ UNCHANGED <<wfVars, renderVars, crewVars>>
    \/ \E zip \in Archives : ScanArchive(zip) /\ UNCHANGED <<wfVars, renderVars, crewVars>>

SpecScan == InitScan /\ [][NextScan]_vars

\* ------------------------------------------------------------------ claims about the workflow

\* ws holds the words of sub, next to each other and in order
ContainsWords(ws, sub) ==
    \E k \in 0..(Len(ws) - Len(sub)) : SubSeq(ws, k + 1, k + Len(sub)) = sub

\* doc has a heading line whose text contains the words of sub
HasHeader(doc, sub) ==
    \E i \in 1..Len(doc) : doc[i].h > 0 /\ ContainsWords(doc[i].w, sub)

RequiredHeaders ==
    { <<"BRD">>, <<"FRD">>, <<"NFRD">>, <<"Security", "&", "Compliance">>,
      <<"Architecture", "Overview">> }

\* the section headers the fallback document does carry
FallbackHeaders ==
    { <<"BRD">>, <<"FRD">>, <<"NFRD">>, <<"Compliance", "&", "Standards">>,
      <<"Security", "Requirements">>, <<"Architecture", "Overview">> }

\* the hosted service was found unavailable during this call: the SDK is not
\* importable, the agents could not be created, or the client could not be initialised
ServiceUnavailable ==
    failures \cap {"sdk_missing", "config_missing", "client_init", "agent_create"} # {}

Done == pc = "done"

Unrecovered == {"hosted_run", "run_not_completed", "no_message", "scan", "render"}

C4_MissingConfigFallsBack ==
    ~endpoint =>
        /\ threads = 0
        /\ path # "hosted"
        /\ Done =>
             /\ path = "fallback"
             /\ returned.kind = "result"
             /\ returned.rec.status \in {"success_fallback", "error"}
             /\ returned.rec.status = "error" => failures \cap {"scan", "render"} # {}

C4_Witness ==
    /\ Done
    /\ AGENT_SDK_AVAILABLE /\ ~endpoint
    /\ "config_missing" \in failures
    /\ returned.rec.status = "success_fallback"

FileSet(files) == {files[i] : i \in 1..Len(files)}

\* C10 as stated: a call with a prompt and no codebase path takes the fallback path
\* and returns success_fallback with exactly the two Documentation_Package files.
C10_AsStated ==
    (Done /\ codebase_path = None) =>
        /\ path = "fallback"
        /\ returned.rec.status = "success_fallback"
        /\ Len(returned.rec.rendered_files) = 2
        /\ FileSet(returned.rec.rendered_files) =
              {File(Documentation_Package, ".md"), File(Documentation_Package, ".docx")}

\* C10 as amended: a call with a prompt and no codebase path, made while the hosted
\* service is unavailable, takes the fallback path without scanning and, unless the
\* render step raises (status error), returns success_fallback with exactly
\* Documentation_Package.md and Documentation_Package.docx as its rendered files.
C10_NoCodebaseFallback ==
    (Done /\ codebase_path = None /\ ServiceUnavailable) =>
        /\ path = "fallback"
        /\ "scan" \notin failures
        /\ IF "render" \in failures
           THEN returned.rec.status = "error"
           ELSE /\ returned.rec.status = "success_fallback"
                /\ Len(returned.rec.rendered_files) = 2
                /\ FileSet(returned.rec.rendered_files) =
                      {File(Documentation_Package, ".md"), File(Documentation_Package, ".docx")}

C10_Witness ==
    /\ Done /\ codebase_path = None /\ ServiceUnavailable
    /\ prompt = "Generate full documentation for a shopping cart app"
    /\ returned.rec.status = "success_fallback"
    /\ Len(returned.rec.rendered_files) = 2

\* ------------------------------------------------------------------ claims about the renderer

\* the lines of the input that are not blank
NonBlankLines(markdown) == SelectSeq(split(markdown), strip_nonempty)

\* the level the claim gives a line: 3, 2 or 1 for the markers '### ', '## ' and '# ',
\* 0 for any other line
MarkerLevel(line) ==
    IF startswith(line, <<"#", "#", "#", " ">>) THEN 3
    ELSE IF startswith(line, <<"#", "#", " ">>) THEN 2
    ELSE IF startswith(line, <<"#", " ">>) THEN 1
    ELSE 0

\* the document as saved, without the title the renderer puts first
Body == Tail(disk.docx.doc)

\* C6: after the title, the saved document holds one element per non-blank input
\* line, in order: a heading of level 3, 2 or 1 with the marker removed for a line
\* starting with '### ', '## ' or '# ', a plain paragraph holding the line for any
\* other; blank lines leave nothing.
C6_LineMapping ==
    disk.docx.written =>
        LET lines == NonBlankLines(content)
        IN  /\ Len(Body) = Len(lines)
            /\ \A j \in 1..Len(lines) :
                  LET lv == MarkerLevel(lines[j])
                  IN  IF lv > 0
                      THEN Body[j] = Heading(drop(lines[j], lv + 1), lv)
                      ELSE Body[j] = Paragraph(lines[j])

C6_Witness ==
    /\ disk.docx.written
    /\ Len(split(content)) > Len(Body)
    /\ \E j \in 1..Len(Body) : Body[j].kind = "heading" /\ Body[j].level = 2
    /\ \E j \in 1..Len(Body) : Body[j].kind = "paragraph"

\* the number of '#' a line starts with
RECURSIVE HashCount(_)
HashCount(line) ==
    IF line # <<>> /\ Head(line) = "#" THEN 1 + HashCount(Tail(line)) ELSE 0

\* a markdown heading line: one to maxLevel '#', then a space, then the text
IsHeadingLine(line, maxLevel) ==
    /\ HashCount(line) \in 1..maxLevel
    /\ Len(line) > HashCount(line)
    /\ line[HashCount(line) + 1] = " "

HeadingOf(line) == <<HashCount(line), drop(line, HashCount(line) + 1)>>

\* the headings of the source, as <<level, text>>, in order
RECURSIVE HeadingsOfLines(_, _)
HeadingsOfLines(lines, maxLevel) ==
    IF lines = <<>> THEN <<>>
    ELSE (IF IsHeadingLine(Head(lines), maxLevel) THEN <<HeadingOf(Head(lines))>> ELSE <<>>)
         \o HeadingsOfLines(Tail(lines), maxLevel)

SourceHeadings(markdown, maxLevel) == HeadingsOfLines(split(markdown), maxLevel)

\* the headings of a saved document, as <<level, text>>, in order
RECURSIVE ExtractHeadings(_)
ExtractHeadings(doc) ==
    IF doc = <<>> THEN <<>>
    ELSE (IF Head(doc).kind = "heading" THEN <<<<Head(doc).level, Head(doc).text>>>> ELSE <<>>)
         \o ExtractHeadings(Tail(doc))

\* C7 as stated: the headings of the saved document are the heading lines of the
\* source markdown (levels 1 to 6), same level, text and order, nothing added or omitted.
C7_AsStated ==
    disk.docx.written =>
        ExtractHeadings(disk.docx.doc) = SourceHeadings(content, 6)

\* C7 as amended: the headings of the saved document are the fixed level-0 title
\* 'Documentation Package', which the renderer adds, followed by the headings of the
\* source lines that start with '# ', '## ' or '### ', same level, text and order;
\* a deeper heading line such as '#### x' is saved as a paragraph.
C7_RoundTrip ==
    disk.docx.written =>
        ExtractHeadings(disk.docx.doc) = <<<<0, TitleText>>>> \o SourceHeadings(content, 3)

C7_Witness ==
    /\ disk.docx.written
    /\ Len(ExtractHeadings(disk.docx.doc)) = 3
    /\ ExtractHeadings(disk.docx.doc)[2][1] # ExtractHeadings(disk.docx.doc)[3][1]

\* ------------------------------------------------------------------ claims about the crew pipeline

\* C3: when the hosted call of a stage throws, no later stage runs, the caller gets a
\* result with status error and the error description, no render step is attempted
\* and no output file is written.
C3_StageErrorResult ==
    (crew_pc = "done" /\ thrown # 0) =>
        /\ started[Len(started)] = thrown
        /\ crew_ret.kind = "result"
        /\ crew_ret.status = "error"
        /\ crew_ret.error # ""
        /\ ~tool_ret.returned
        /\ ~disk.md.written /\ ~disk.docx.written

\* the context sets the claim names
ClaimedContext(k) ==
    CASE k = 1 -> {}
      [] k = 2 -> {1}
      [] k = 3 -> {2}
      [] k = 4 -> {1, 2, 3}

IsPrefix(a, b) == Len(a) <= Len(b) /\ a = SubSeq(b, 1, Len(a))

\* C5: the tasks start in the order 1, 2, 3, 4, each at most once; the declared
\* context sets are {1} for task 2, {2} for task 3 and {1, 2, 3} for task 4; a task
\* has started only if every task of its context set has produced its output and
\* every task started before it has completed.
C5_SequentialOrder ==
    /\ IsPrefix(started, <<1, 2, 3, 4>>)
    /\ \A k \in Tasks : task_context(k) = ClaimedContext(k)
    /\ \A i \in 1..Len(started) :
          /\ \A c \in ClaimedContext(started[i]) : task_output[c].done
          /\ \A j \in 1..(i - 1) : task_output[started[j]].done
    /\ \A k \in Tasks : task_output[k].done => \E i \in 1..Len(started) : started[i] = k

C5_Witness ==
    /\ crew_pc = "done"
    /\ crew_ret.kind = "result"
    /\ started = <<1, 2, 3, 4>>
    /\ \A k \in Tasks : task_output[k].done
    /\ disk.docx.written

\* ------------------------------------------------------------------ claims about the scanner

C9_EmptyDirectory ==
    (last.kind = "record" /\ last.path = ProjectDir /\ last.content = <<>>) =>
        /\ last.result.files = <<>>
        /\ last.result.endpoints = <<>>
        /\ last.result.language = "unknown"
        /\ last.result.architecture = <<"0", "files |", "unknown", "|", "0", "endpoints">>

C9_Witness ==
    /\ last.kind = "record"
    /\ last.path = ProjectDir
    /\ last.content = <<>>
    /\ fs[extract_dir] # <<>>

\* ---- one file and what it contributes

WebMarkers == {"fastapi", "flask", "@app.route", "router."}
AuthMarkers == {"jwt", "oauth", "passport", "auth0"}

\* the last call walked the project directory and found exactly one file, an eligible one
OneEligibleFile ==
    /\ last.kind = "record"
    /\ last.path = ProjectDir
    /\ Len(last.content) = 1
    /\ eligible(last.content[1])

\* C11: the record of a codebase of one eligible file whose content holds a
\* web-framework marker and an auth marker and not 'password' has at least one
\* auth-method entry, the language 'Python Web' and no security issue.
C11_MarkersDetected ==
    (/\ OneEligibleFile
     /\ has_any(last.content[1], WebMarkers)
     /\ has_any(last.content[1], AuthMarkers)
     /\ ~has_any(last.content[1], {"password"})) =>
        /\ Len(last.result.auth_methods) >= 1
        /\ last.result.language = "Python Web"
        /\ last.result.security_issues = <<>>

\* the try body of agent_with_crew.py:74-86 raises on this file: open() fails, or the
\* file is re-read for its endpoints and its bytes do not decode
raises_in_try(f) ==
    eligible(f) /\ (~f.readable \/ (has_any(f, WebMarkers) /\ ~f.decodable))

reads_cleanly(f) == ~raises_in_try(f)

\* C12: an error on one file never leaves the scanner: the call returns a record, and
\* the record is the one of the same directory without the files that raised; such a
\* file adds nothing to the file list, the language, the endpoints, the auth methods
\* or the security issues.
C12_FailedFileExcluded ==
    (last.kind # "none" /\ last.path = ProjectDir) =>
        /\ last.kind = "record"
        /\ last.result = analyze(ProjectDir, SelectSeq(last.content, reads_cleanly))

\* the same files with the bytes that do not decode discarded
decoded(listing) == [i \in 1..Len(listing) |-> [listing[i] EXCEPT !.decodable = TRUE]]

\* C17: bytes that do not decode change nothing but themselves: the record of a
\* directory is the record of the same files read with those bytes discarded, also for
\* a file classified as a web framework and read again for its endpoints.
C17_UndecodableDiscarded ==
    (last.kind = "record" /\ last.path = ProjectDir) =>
        last.result = analyze(ProjectDir, decoded(last.content))

\* C20: the record returned for an archive is the record of that archive's content
\* alone: its file list holds exactly the eligible files of the archive just scanned,
\* and nothing of an archive extracted earlier into the scratch directory.
C20_ArchiveContentOnly ==
    (last.kind = "record" /\ endswith_zip(last.path)) =>
        last.result = analyze(extract_dir, members(last.path))

\* ------------------------------------------------------------------ more claims about the renderer

\* the output files present on a disk, markdown first
written_files(d) ==
    (IF d.md.written THEN <<File(Documentation_Package, ".md")>> ELSE <<>>)
    \o (IF d.docx.written THEN <<File(Documentation_Package, ".docx")>> ELSE <<>>)

\* C13: the two writes of a render are independent. Whichever of the two writes
\* fail, the write that does not fail is performed, a file written stays written, and
\* the value returned names the files written and carries an error when one was not.
C13_IndependentWrites ==
    [][ \A mdFails \in BOOLEAN, docxFails \in BOOLEAN :
          LET r == generate_documents(disk, content, Documentation_Package, mdFails, docxFails)
          IN  (~tool_ret.returned /\ tool_ret'.returned /\ disk' = r.disk /\ tool_ret' = r.ret) =>
                 /\ ~mdFails => disk'.md.written /\ disk'.md.text = content
                 /\ ~docxFails => disk'.docx.written
                 /\ tool_ret'.files = written_files(disk')
                 /\ (mdFails \/ docxFails) => tool_ret'.error # "" ]_vars

\* ------------------------------------------------------------------ more claims about the workflow

\* C14: when the codebase path is an archive that cannot be extracted, the fallback
\* workflow gets no analysis record, generates and renders nothing, and returns a
\* result with status error and the description of the failure.
C14_ExtractionFailureIsError ==
    (/\ pc = "done"
     /\ path = "fallback"
     /\ codebase_path # None
     /\ path_exists(codebase_path)
     /\ extraction_raises(codebase_path)) =>
        /\ returned.kind = "result"
        /\ returned.rec.status = "error"
        /\ "error" \in returned.rec.keys
        /\ returned.rec.error # ""
        /\ "analysis" \notin returned.rec.keys
        /\ analysis_dict = SkippedAnalysis
        /\ documentation = NoLines
        /\ renders = 0

C14_Witness ==
    /\ pc = "done"
    /\ path = "fallback"
    /\ codebase_path = "bad.zip"
    /\ "scan" \in failures
    /\ returned.rec.status = "error"

\* this invocation generated a fallback document from the same prompt and the same
\* analysis record as the invocation before it
SameInputsAsPrevious ==
    /\ path = "fallback"
    /\ documentation # NoLines
    /\ previous.set
    /\ previous.prompt = prompt
    /\ previous.analysis = analysis_dict

\* a text without its last line
WithoutLast(doc) == SubSeq(doc, 1, Len(doc) - 1)

SavedLevels == [j \in 1..Len(Body) |-> Body[j].level]

\* the levels a reference that tests '### ' first, then '## ', then '# ' gives the
\* non-blank lines of the input
ReferenceLevels ==
    [j \in 1..Len(NonBlankLines(content)) |-> MarkerLevel(NonBlankLines(content)[j])]

\* C16: the renderer's chain of prefix tests classifies every line as a reference
\* that tests the longest marker first does: the levels saved are the levels the
\* reference gives, so no '### ' or '## ' line is saved as a level-1 heading.
C16_LongestPrefixFirst ==
    disk.docx.written => SavedLevels = ReferenceLevels

C16_Witness ==
    /\ disk.docx.written
    /\ \E j \in 1..Len(Body) : Body[j].level = 3
    /\ \E j \in 1..Len(Body) : Body[j].level = 0

\* C18: on the hosted path, once the run completed and an assistant message was
\* retrieved, the result has status success and carries the text, whether or not the
\* render step raised; a render that raised leaves rendered_files empty and adds no
\* error field; a run that did not complete returns failed, a run without assistant
\* message returns no_output, and neither attempts the render step.
C18_HostedOutcome ==
    (pc = "done" /\ path = "hosted") =>
        /\ documentation # NoLines =>
              /\ returned.kind = "result"
              /\ returned.rec.status = "success"
              /\ "documentation" \in returned.rec.keys
              /\ returned.rec.documentation = documentation
              /\ renders = 1
              /\ "render" \in failures =>
                    /\ returned.rec.rendered_files = NoFiles
                    /\ "error" \notin returned.rec.keys
                    /\ returned.rec.error = ""
        /\ "run_not_completed" \in failures =>
              /\ returned.rec.status = "failed"
              /\ renders = 0
        /\ "no_message" \in failures =>
              /\ returned.rec.status = "no_output"
              /\ renders = 0

C18_Witness ==
    /\ pc = "done"
    /\ path = "hosted"
    /\ documentation # NoLines
    /\ "render" \in failures
    /\ returned.rec.status = "success"

\* C19: the service never holds two agents of the same name, whatever calls of
\* create_foundry_agents were made and whichever of their list_agents and
\* create_agent calls failed.
C19_AtMostOnePerName ==
    \A n \in AgentNameSet : service[n] <= 1

====
